---- MODULE Spec2Model ----
(***************************************************************************)
(* FaceGallery: the embedding clusterer and matcher                        *)
(* (src/src/face_engine/clusterer.py), the photo scanner                   *)
(* (src/src/core/scanner.py), the assignment operations of AppCore         *)
(* (src/src/core/app_core.py) and the tables they write                    *)
(* (src/src/db/manager.py, src/src/db/schema.py).                          *)
(*                                                                         *)
(* Numbers.  The source computes in float32.  Here an embedding is a pair  *)
(* of integers and a normalised embedding is the pair of its coordinates   *)
(* in thousandths (fixed point, Scale = 1000, truncating division).  A     *)
(* cosine distance d of the source is the integer d * Scale.               *)
(*                                                                         *)
(* Identifiers.  AUTOINCREMENT row ids start at 1 and are never reused;    *)
(* Python's None is modelled as 0 for ids and as the empty tuple for an    *)
(* embedding.  A photo is identified by its path (photos.path is UNIQUE).  *)
(***************************************************************************)
EXTENDS Integers, Sequences, FiniteSets, TLC

VARIABLES
    \* ---- database tables (src/src/db/schema.py) ----
    photos,        \* path -> [photo_id, phash] (photo_id None: no row)
    faces,         \* face_id -> [photo_id, emb] for the rows of table faces
    persons,       \* person_id -> [profile_face_id] for the rows of persons
    mappings,      \* set of <<person_id, face_id>>: person_face_mappings
    marked,        \* folder -> number of mark_folder_scanned updates of it
    next_id,       \* table -> the next AUTOINCREMENT row id of the table
    \* ---- environment ----
    disk,          \* path -> content hash of the file on disk
    cancel,        \* what cancelled_cb() returns
    \* ---- threads ----
    scan,          \* the thread running PhotoScanner.scan
    req,           \* the thread running one AppCore request
    \* ---- cluster_embeddings (a pure function, run step by step) ----
    cl,
    \* ---- find_best_match (a pure function, one call) ----
    fm,
    \* ---- the web server (src/src/web/server.py) ----
    web,           \* the run_scan threads of /admin/scan and _scan_progress
    fk             \* PRAGMA foreign_keys of the request thread's connection

db_vars  == <<photos, faces, persons, mappings, marked, next_id>>
env_vars == <<disk, cancel>>
vars     == <<photos, faces, persons, mappings, marked, next_id,
              disk, cancel, scan, req, cl, fm, web, fk>>

----------------------------------------------------------------------------
(* Bounds of the model *)

\* Scan runs started in one behaviour.
MaxScans == 2
\* AppCore / user requests started in one behaviour.
MaxRequests == 2
\* Rows ever inserted into table faces.
MaxFaces == 3
\* Rows ever inserted into table persons.
MaxPersons == 2
\* Length of the input of cluster_embeddings.
MaxLen == 4
\* Length of the known list of find_best_match.
MaxKnown == 5
\* POST /admin/scan requests in one behaviour.
MaxWebScans == 2

----------------------------------------------------------------------------
(* Values *)

None  == 0
NoEmb == <<>>
Scale == 10 * 100

Max(a, b) == IF a > b THEN a ELSE b
Min(a, b) == IF a < b THEN a ELSE b

RECURSIVE IsqrtIter(_, _, _)
IsqrtIter(n, lo, hi) ==
    IF lo >= hi THEN lo
    ELSE LET mid == (lo + hi + 1) \div 2
         IN  IF mid * mid <= n THEN IsqrtIter(n, mid, hi)
                               ELSE IsqrtIter(n, lo, mid - 1)

\* floor(sqrt(n)), 0 <= n < 2^31
Isqrt(n) == IsqrtIter(n, 0, 46340)

Dot(a, b) == a[1] * b[1] + a[2] * b[2]

\* np.linalg.norm of a raw embedding, in hundredths
RawNorm(v) == Isqrt(Dot(v, v) * 10000)

\* embs / norms with norms[norms == 0] = 1.0 : a raw embedding to fixed point
NormalizeRaw(v) ==
    LET n == RawNorm(v)
    IN  IF n = 0 THEN <<v[1] * Scale, v[2] * Scale>>
        ELSE <<(v[1] * 100 * Scale) \div n, (v[2] * 100 * Scale) \div n>>

\* 1.0 - np.dot(a, b) of two normalised embeddings
CosDist(a, b) == Scale - (Dot(a, b) \div Scale)

----------------------------------------------------------------------------
(* src/src/face_engine/clusterer.py *)

\* get_threshold(): the cosine-distance cutoff of the active backend
get_threshold(backend) ==
    CASE backend = "insightface"      -> (40 * Scale) \div 100
      [] backend = "face_recognition" -> (55 * Scale) \div 100
      [] OTHER                        -> (60 * Scale) \div 100

Backends == {"insightface", "face_recognition", "deepface"}

\* The backend this installation detects with (detector.backend_name()).
ActiveBackend == "insightface"

\* app_core imports SIMILARITY_THRESHOLD from clusterer.py, which does not
\* define it; the spec makes the threshold configuration, and the value used
\* here is the one get_threshold() gives.
SIMILARITY_THRESHOLD == get_threshold(ActiveBackend)

\* -- cluster_embeddings ---------------------------------------------------

\* One normalised leader after the member `current` joined as the n-th:
\* leaders[b] * (n - 1) / n + current / n, re-normalised when its norm > 0.
UpdateLeader(leader, current, n) ==
    LET m == << (leader[1] * (n - 1) + current[1]) \div n,
                (leader[2] * (n - 1) + current[2]) \div n >>
        lnorm == Isqrt(Dot(m, m))
    IN  IF lnorm > 0
        THEN << (m[1] * Scale) \div lnorm, (m[2] * Scale) \div lnorm >>
        ELSE m

\* dists = 1.0 - np.dot(leaders, current)
LeaderDists(leaders, current) ==
    [c \in 1..Len(leaders) |-> CosDist(leaders[c], current)]

\* int(np.argmin(dists)): the first position of the minimum
ArgMin(dists) ==
    CHOOSE c \in DOMAIN dists :
        /\ \A k \in DOMAIN dists : dists[c] <= dists[k]
        /\ \A k \in DOMAIN dists : k < c => dists[k] > dists[c]

\* The state of the loop before any embedding is processed.
ClusterStart == [clusters |-> <<>>, leaders |-> <<>>]

\* ClusterIter with the running mean weighted by the position in the input
\* (n = idx + 1) instead of the size of the cluster.
ClusterIterMeanByPosition(st, idx, current, threshold) ==
    IF st.leaders = <<>>
    THEN [clusters |-> <<  <<idx>>  >>, leaders |-> <<current>>]
    ELSE LET dists == LeaderDists(st.leaders, current)
             best  == ArgMin(dists)
         IN  IF dists[best] < threshold
             THEN LET n == idx + 1
                  IN  [clusters |-> [st.clusters EXCEPT ![best] = Append(@, idx)],
                       leaders  |-> [st.leaders EXCEPT
                                        ![best] = UpdateLeader(@, current, n)]]
             ELSE [clusters |-> Append(st.clusters, <<idx>>),
                   leaders  |-> Append(st.leaders, current)]

\* ClusterIter with clusters.insert(0, [idx]) for clusters.append([idx]): the
\* newest cluster comes first.
ClusterIterNewFirst(st, idx, current, threshold) ==
    IF st.leaders = <<>>
    THEN [clusters |-> <<  <<idx>>  >>, leaders |-> <<current>>]
    ELSE LET dists == LeaderDists(st.leaders, current)
             best  == ArgMin(dists)
         IN  IF dists[best] < threshold
             THEN LET n == Len(st.clusters[best]) + 1
                  IN  [clusters |-> [st.clusters EXCEPT ![best] = Append(@, idx)],
                       leaders  |-> [st.leaders EXCEPT
                                        ![best] = UpdateLeader(@, current, n)]]
             ELSE [clusters |-> << <<idx>> >> \o st.clusters,
                   leaders  |-> <<current>> \o st.leaders]

\* ClusterIter with `<=` for `<`: an embedding exactly at the threshold joins.
ClusterIterNonStrict(st, idx, current, threshold) ==
    IF st.leaders = <<>>
    THEN [clusters |-> <<  <<idx>>  >>, leaders |-> <<current>>]
    ELSE LET dists == LeaderDists(st.leaders, current)
             best  == ArgMin(dists)
         IN  IF dists[best] <= threshold
             THEN LET n == Len(st.clusters[best]) + 1
                  IN  [clusters |-> [st.clusters EXCEPT ![best] = Append(@, idx)],
                       leaders  |-> [st.leaders EXCEPT
                                        ![best] = UpdateLeader(@, current, n)]]
             ELSE [clusters |-> Append(st.clusters, <<idx>>),
                   leaders  |-> Append(st.leaders, current)]

\* ClusterIter without its else branch: an embedding far from every leader
\* opens no cluster.
ClusterIterNoNewCluster(st, idx, current, threshold) ==
    IF st.leaders = <<>>
    THEN [clusters |-> <<  <<idx>>  >>, leaders |-> <<current>>]
    ELSE LET dists == LeaderDists(st.leaders, current)
             best  == ArgMin(dists)
         IN  IF dists[best] < threshold
             THEN LET n == Len(st.clusters[best]) + 1
                  IN  [clusters |-> [st.clusters EXCEPT ![best] = Append(@, idx)],
                       leaders  |-> [st.leaders EXCEPT
                                        ![best] = UpdateLeader(@, current, n)]]
             ELSE st

\* One iteration of `for idx in range(len(normed))`; idx is zero-based.
ClusterIter(st, idx, current, threshold) ==
    IF st.leaders = <<>>
    THEN [clusters |-> <<  <<idx>>  >>, leaders |-> <<current>>]
    ELSE LET dists == LeaderDists(st.leaders, current)
             best  == ArgMin(dists)
         IN  IF dists[best] < threshold
             THEN LET n == Len(st.clusters[best]) + 1
                  IN  [clusters |-> [st.clusters EXCEPT ![best] = Append(@, idx)],
                       leaders  |-> [st.leaders EXCEPT
                                        ![best] = UpdateLeader(@, current, n)]]
             ELSE [clusters |-> Append(st.clusters, <<idx>>),
                   leaders  |-> Append(st.leaders, current)]

RECURSIVE ClusterLoop(_, _, _, _)
ClusterLoop(st, normed, idx, threshold) ==
    IF idx >= Len(normed) THEN st
    ELSE ClusterLoop(ClusterIter(st, idx, normed[idx + 1], threshold),
                     normed, idx + 1, threshold)

cluster_embeddings(embeddings, threshold) ==
    IF embeddings = <<>> THEN <<>>
    ELSE LET normed == [i \in 1..Len(embeddings) |-> NormalizeRaw(embeddings[i])]
         IN  ClusterLoop(ClusterStart, normed, 0, threshold).clusters

\* -- find_best_match ------------------------------------------------------

RECURSIVE SortedSeq(_)
\* np.unique: the elements of a set of integers in ascending order
SortedSeq(S) ==
    IF S = {} THEN <<>>
    ELSE LET m == CHOOSE x \in S : \A y \in S : x <= y
         IN  <<m>> \o SortedSeq(S \ {m})

\* dists = 1.0 - np.dot(emb_matrix, qn), one per entry of known
KnownDists(qn, known) ==
    [i \in 1..Len(known) |-> CosDist(NormalizeRaw(known[i][2]), qn)]

\* mask = person_ids == pid
PersonRows(known, pid) == {i \in 1..Len(known) : known[i][1] = pid}

\* float(np.min(pid_dists))
MinDist(dists, rows) ==
    CHOOSE d \in {dists[i] : i \in rows} : \A i \in rows : d <= dists[i]

\* the vote threshold of the docstring: 2 x threshold, without the cap
VoteThresholdUncapped(threshold) == threshold * 2

\* vote_threshold = min(threshold * 2.0, 0.80)
VoteThreshold(threshold) == Min(threshold * 2, (80 * Scale) \div 100)

\* the filter without "total_count >= 3"
SparseMatchAnyCount(dists, rows, threshold) ==
    LET close_count == Cardinality({i \in rows : dists[i] < VoteThreshold(threshold)})
        total_count == Cardinality(rows)
    IN  close_count * 100 < 30 * total_count

\* total_count >= 3 and close_count / total_count < 0.30
SparseMatch(dists, rows, threshold) ==
    LET close_count == Cardinality({i \in rows : dists[i] < VoteThreshold(threshold)})
        total_count == Cardinality(rows)
    IN  total_count >= 3 /\ close_count * 100 < 30 * total_count

RECURSIVE BestPersonLoopNonStrict(_, _, _, _, _, _)
\* the loop with "if min_dist <= best_min_dist"
BestPersonLoopNonStrict(pids, k, dists, known, threshold, best) ==
    IF k > Len(pids) THEN best
    ELSE LET pid      == pids[k]
             rows     == PersonRows(known, pid)
             min_dist == MinDist(dists, rows)
             nxt == IF SparseMatch(dists, rows, threshold) THEN best
                    ELSE IF min_dist <= best[2] THEN <<pid, min_dist>>
                    ELSE best
         IN  BestPersonLoopNonStrict(pids, k + 1, dists, known, threshold, nxt)

RECURSIVE BestPersonLoopSparseBlocks(_, _, _, _, _, _)
\* the loop with a filtered identity lowering best_min_dist
BestPersonLoopSparseBlocks(pids, k, dists, known, threshold, best) ==
    IF k > Len(pids) THEN best
    ELSE LET pid      == pids[k]
             rows     == PersonRows(known, pid)
             min_dist == MinDist(dists, rows)
             nxt == IF min_dist < best[2]
                    THEN IF SparseMatch(dists, rows, threshold)
                         THEN <<None, min_dist>> ELSE <<pid, min_dist>>
                    ELSE best
         IN  BestPersonLoopSparseBlocks(pids, k + 1, dists, known, threshold, nxt)

RECURSIVE BestPersonLoop(_, _, _, _, _, _)
\* for pid in unique_persons: ... ; best = <<best_person, best_min_dist>>
BestPersonLoop(pids, k, dists, known, threshold, best) ==
    IF k > Len(pids) THEN best
    ELSE LET pid      == pids[k]
             rows     == PersonRows(known, pid)
             min_dist == MinDist(dists, rows)
             nxt == IF SparseMatch(dists, rows, threshold) THEN best
                    ELSE IF min_dist < best[2] THEN <<pid, min_dist>>
                    ELSE best
         IN  BestPersonLoop(pids, k + 1, dists, known, threshold, nxt)

\* the function with unique_persons in the order of first occurrence in known
find_best_match_known_order(query_emb, known_embeddings, threshold) ==
    IF known_embeddings = <<>> \/ query_emb = NoEmb THEN None
    ELSE IF RawNorm(query_emb) = 0 THEN None
    ELSE LET qn    == NormalizeRaw(query_emb)
             dists == KnownDists(qn, known_embeddings)
             P     == {known_embeddings[i][1] : i \in 1..Len(known_embeddings)}
             first(p) == CHOOSE i \in 1..Len(known_embeddings) :
                            /\ known_embeddings[i][1] = p
                            /\ \A j \in 1..(i - 1) : known_embeddings[j][1] # p
             pids  == [k \in 1..Cardinality(P) |->
                          CHOOSE p \in P :
                              Cardinality({q \in P : first(q) < first(p)}) = k - 1]
         IN  BestPersonLoop(pids, 1, dists, known_embeddings, threshold,
                            <<None, threshold>>)[1]

\* the function without the guard of the empty list and the None query: the
\* array operations raise (-1) on them
find_best_match_unguarded(query_emb, known_embeddings, threshold) ==
    IF known_embeddings = <<>> \/ query_emb = NoEmb THEN -1
    ELSE IF RawNorm(query_emb) = 0 THEN None
    ELSE LET qn    == NormalizeRaw(query_emb)
             dists == KnownDists(qn, known_embeddings)
             pids  == SortedSeq({known_embeddings[i][1] :
                                    i \in 1..Len(known_embeddings)})
         IN  BestPersonLoop(pids, 1, dists, known_embeddings, threshold,
                            <<None, threshold>>)[1]

\* the function answering an id of its own making when nobody matches
find_best_match_new_id(query_emb, known_embeddings, threshold) ==
    IF known_embeddings = <<>> \/ query_emb = NoEmb THEN None
    ELSE IF RawNorm(query_emb) = 0 THEN None
    ELSE LET qn    == NormalizeRaw(query_emb)
             dists == KnownDists(qn, known_embeddings)
             pids  == SortedSeq({known_embeddings[i][1] :
                                    i \in 1..Len(known_embeddings)})
             best  == BestPersonLoop(pids, 1, dists, known_embeddings, threshold,
                                     <<None, threshold>>)[1]
         IN  IF best = None THEN pids[Len(pids)] + 1 ELSE best

find_best_match(query_emb, known_embeddings, threshold) ==
    IF known_embeddings = <<>> \/ query_emb = NoEmb THEN None
    ELSE IF RawNorm(query_emb) = 0 THEN None
    ELSE LET qn    == NormalizeRaw(query_emb)
             dists == KnownDists(qn, known_embeddings)
             pids  == SortedSeq({known_embeddings[i][1] :
                                    i \in 1..Len(known_embeddings)})
         IN  BestPersonLoop(pids, 1, dists, known_embeddings, threshold,
                            <<None, threshold>>)[1]

----------------------------------------------------------------------------
(* The world the scanner runs in *)

\* The registered scan folders.
Folders == <<"A", "B">>

\* walk_images(folder): the image files under the folder, in the order
\* os.walk yields them.
walk_images(folder) == IF folder = "A" THEN <<"a.jpg">> ELSE <<"b.jpg">>

\* all_images: for folder in folders: for img_path in walk_images(folder)
RECURSIVE AllImages(_)
AllImages(folders) ==
    IF folders = <<>> THEN <<>>
    ELSE walk_images(Head(folders)) \o AllImages(Tail(folders))

Paths == {AllImages(Folders)[i] : i \in 1..Len(AllImages(Folders))}

\* Raw embeddings the detector reports: two orthogonal directions.
EA == <<100, 0>>
EB == <<0, 100>>

\* What detect_faces(img_path) may return: the embeddings of the faces found
\* (NoEmb: a face the backend localised without an embedding).
DetectOutcomes == { <<>>, <<EA>>, <<NoEmb>>, <<EA, EA>>, <<EB, EA>> }

----------------------------------------------------------------------------
(* src/src/db/manager.py with the constraints of src/src/db/schema.py.     *)
(* Every method is one statement in its own transaction; foreign keys are  *)
(* enforced (PRAGMA foreign_keys=ON in _get_conn).                         *)

FaceIds   == DOMAIN faces
PersonIds == DOMAIN persons
PhotoIds  == {photos[p].photo_id : p \in {q \in Paths : photos[q].photo_id # None}}

\* get_photo_by_path(path): the row, or None
get_photo_by_path(path) == photos[path]

\* get_faces_for_photo(photo_id)
get_faces_for_photo(photo_id) == {f \in FaceIds : faces[f].photo_id = photo_id}

\* get_faces_for_person(person_id)
get_faces_for_person(person_id) == {f \in FaceIds : <<person_id, f>> \in mappings}

\* get_unassigned_faces(): faces LEFT JOIN person_face_mappings ... IS NULL
get_unassigned_faces == {f \in FaceIds : \A m \in mappings : m[2] # f}

\* The identities a face is linked to.
PersonsOf(f) == {m[1] : m \in {x \in mappings : x[2] = f}}

\* faces(face_id) ON DELETE CASCADE in person_face_mappings
CascadeMappings(deleted) == {m \in mappings : m[2] \notin deleted}

\* persons.profile_face_id REFERENCES faces(face_id) ON DELETE SET NULL
SetNullProfiles(deleted) ==
    [p \in PersonIds |->
        IF persons[p].profile_face_id \in deleted
        THEN [persons[p] EXCEPT !.profile_face_id = None]
        ELSE persons[p]]

\* The rows of faces left by DELETE FROM faces WHERE face_id IN deleted
RemainingFaces(deleted) == [f \in FaceIds \ deleted |-> faces[f]]

\* map_face_to_person(person_id, face_id) passes its foreign keys
MapAllowed(person_id, face_id) == person_id \in PersonIds /\ face_id \in FaceIds

\* INSERT OR IGNORE INTO person_face_mappings: UNIQUE(person_id, face_id)
map_face_to_person(person_id, face_id) == mappings \cup {<<person_id, face_id>>}

\* DELETE FROM person_face_mappings WHERE face_id=?
unmap_face(face_id) == {m \in mappings : m[2] # face_id}

\* The (person_id, embedding) list of _load_known_faces and
\* _get_all_known_embeddings: every mapped face that has an embedding, person
\* by person.  get_all_persons orders by name; names are not modelled and the
\* persons are taken by id (find_best_match goes through np.unique(person_ids),
\* so the order of the list does not change its result).
RECURSIVE KnownOfFaces(_, _)
KnownOfFaces(person_id, fs) ==
    IF fs = <<>> THEN <<>>
    ELSE (IF faces[fs[1]].emb # NoEmb
          THEN << <<person_id, faces[fs[1]].emb>> >> ELSE <<>>)
         \o KnownOfFaces(person_id, Tail(fs))

RECURSIVE KnownOfPersons(_)
KnownOfPersons(ps) ==
    IF ps = <<>> THEN <<>>
    ELSE KnownOfFaces(ps[1], SortedSeq(get_faces_for_person(ps[1])))
         \o KnownOfPersons(Tail(ps))

_load_known_faces == KnownOfPersons(SortedSeq(PersonIds))

\* -- AppCore.cluster_unknown_faces and the /admin/naming page ---------------

\* np.mean(c_embs, axis=0)
RECURSIVE SumEmbs(_)
SumEmbs(embs) ==
    IF embs = <<>> THEN <<0, 0>>
    ELSE LET rest == SumEmbs(Tail(embs))
         IN  <<embs[1][1] + rest[1], embs[1][2] + rest[2]>>

Centroid(c_embs) ==
    <<SumEmbs(c_embs)[1] \div Len(c_embs), SumEmbs(c_embs)[2] \div Len(c_embs)>>

\* cluster_unknown_faces(threshold): the groups {face_ids, suggestion}: the
\* clusters of the unassigned faces that have an embedding, each with the
\* match of its centroid, then one group per unassigned face without embedding
cluster_unknown_faces(threshold) ==
    LET rows == SortedSeq(get_unassigned_faces)
        HasEmb(f) == faces[f].emb # NoEmb
        HasNone(f) == faces[f].emb = NoEmb
        face_ids == SelectSeq(rows, HasEmb)
        standalone_face_ids == SelectSeq(rows, HasNone)
        embeddings == [k \in 1..Len(face_ids) |-> faces[face_ids[k]].emb]
        known_embs == IF embeddings # <<>> THEN _load_known_faces ELSE <<>>
        raw_clusters == cluster_embeddings(embeddings, threshold)
        Group(cluster_indices) ==
            LET c_face_ids == [j \in 1..Len(cluster_indices) |->
                                  face_ids[cluster_indices[j] + 1]]
                c_embs == [j \in 1..Len(cluster_indices) |->
                              embeddings[cluster_indices[j] + 1]]
            IN  [face_ids |-> c_face_ids,
                 suggestion |-> IF known_embs = <<>> THEN None
                                ELSE find_best_match(Centroid(c_embs), known_embs,
                                                     threshold)]
    IN  [k \in 1..Len(raw_clusters) |-> Group(raw_clusters[k])]
        \o [k \in 1..Len(standalone_face_ids) |->
               [face_ids |-> <<standalone_face_ids[k]>>, suggestion |-> None]]

\* admin_naming, for an admin: the unassigned faces, np.zeros(512) standing
\* for a missing embedding, clustered with the default threshold; the
\* clusters as lists of face ids
admin_naming ==
    LET face_list == SortedSeq(get_unassigned_faces)
        embs == [k \in 1..Len(face_list) |->
                    IF faces[face_list[k]].emb # NoEmb THEN faces[face_list[k]].emb
                    ELSE <<0, 0>>]
        clusters == cluster_embeddings(embs, get_threshold(ActiveBackend))
    IN  [k \in 1..Len(clusters) |->
            [j \in 1..Len(clusters[k]) |-> face_list[clusters[k][j] + 1]]]

----------------------------------------------------------------------------
(* src/src/core/scanner.py: PhotoScanner.scan, one thread.                 *)
(* scan.pc is the thread's place in scan(); the fields named as the        *)
(* locals of scan() and _index_faces() are those locals.  lastrowid is     *)
(* sqlite3's last insert rowid of the thread's own connection.  The fields *)
(* cur, log, links, polls, cancelled and runs record what the run did.     *)

Tables == {"photos", "faces", "persons", "person_face_mappings"}

NoFile == [pre |-> "none", had_faces |-> FALSE, detected |-> FALSE]

ScanIdle ==
    [pc |-> "idle", folders |-> <<>>, all_images |-> <<>>,
     force_rescan |-> FALSE, idx |-> 0, known_faces |-> <<>>,
     added |-> 0, skipped |-> 0, faces_found |-> 0, auto_assigned |-> 0,
     lastrowid |-> 0, photo_id |-> None, todo |-> <<>>, count |-> 0,
     matched_count |-> 0, face_id |-> None,
     summary |-> [total |-> 0, added |-> 0, skipped |-> 0, faces |-> 0,
                  matched |-> 0],
     runs |-> 0, polls |-> 0, cancelled |-> FALSE, cur |-> NoFile, log |-> <<>>,
     links |-> 0, last_match |-> <<NoEmb, None>>]

total == Len(scan.all_images)

\* The end of one iteration of the for loop: the file is counted, its record
\* kept, and the thread is back at the cancellation check.
NextFile(s, outcome) ==
    [s EXCEPT !.pc = "poll", !.idx = @ + 1, !.photo_id = None, !.todo = <<>>,
              !.count = 0, !.matched_count = 0, !.face_id = None,
              !.cur = NoFile,
              !.log = Append(@, [pre |-> s.cur.pre, had_faces |-> s.cur.had_faces,
                                 detected |-> s.cur.detected,
                                 outcome |-> outcome])]

\* The handler around the loop instead of inside it: the first failure ends
\* the loop.
CaughtOutsideLoop(s) ==
    [NextFile([s EXCEPT !.skipped = @ + 1], "raised") EXCEPT !.pc = "finish"]

\* except Exception as exc: logger.error(...); skipped += 1
Caught(s) == NextFile([s EXCEPT !.skipped = @ + 1], "raised")

\* The else branch without its count.
SkipUncounted(s) == NextFile(s, "skipped")

\* else: skipped += 1
Skip(s) == NextFile([s EXCEPT !.skipped = @ + 1], "skipped")

\* faces_found += faces; auto_assigned += matched; added += 1
Added(s) ==
    NextFile([s EXCEPT !.faces_found = @ + s.count,
                       !.auto_assigned = @ + s.matched_count,
                       !.added = @ + 1], "added")

\* scan(folders, force_rescan) up to the for loop: the locals, the known faces.
\* The caller starts it on a new thread, whose connection has inserted nothing;
\* ScanDialog._start_scan clears its cancel flag first.
ScanStart(folders, force_rescan) ==
    /\ scan.pc \in {"idle", "done"}
    /\ scan.runs < MaxScans
    /\ scan' = [ScanIdle EXCEPT !.pc = "poll", !.folders = folders,
                                !.all_images = AllImages(folders),
                                !.force_rescan = force_rescan,
                                !.idx = 1, !.known_faces = _load_known_faces,
                                !.runs = scan.runs + 1]
    /\ cancel' = FALSE
    /\ UNCHANGED <<db_vars, disk, req, cl, fm, web, fk>>

\* A cancelled_cb that always answers False: the user's click never reaches
\* the loop.
CancelNeverSeen == FALSE

\* self._cancelled_cb(): lambda: self._cancelled (ScanWorker)
_cancelled_cb == cancel

\* if self._cancelled_cb(): break
ScanCancelled ==
    /\ scan.pc = "poll"
    /\ scan.idx <= total
    /\ _cancelled_cb
    /\ scan' = [scan EXCEPT !.pc = "finish", !.cancelled = TRUE, !.polls = @ + 1]
    /\ UNCHANGED <<db_vars, env_vars, req, cl, fm, web, fk>>

\* the loop goes on to the next file: self._progress_cb(idx, total, ...)
ScanPoll ==
    /\ scan.pc = "poll"
    /\ scan.idx <= total
    /\ ~_cancelled_cb
    /\ scan' = [scan EXCEPT !.pc = "index", !.polls = @ + 1]
    /\ UNCHANGED <<db_vars, env_vars, req, cl, fm, web, fk>>

\* the for loop is exhausted
ScanLoopEnd ==
    /\ scan.pc = "poll"
    /\ scan.idx > total
    /\ scan' = [scan EXCEPT !.pc = "finish"]
    /\ UNCHANGED <<db_vars, env_vars, req, cl, fm, web, fk>>

\* os.path.getsize / compute_file_hash raise (the file cannot be read)
ScanIndexRaise ==
    /\ scan.pc = "index"
    /\ scan' = Caught([scan EXCEPT !.cur.pre = "unreadable"])
    /\ UNCHANGED <<db_vars, env_vars, req, cl, fm, web, fk>>

\* upsert_photo's return value: cur.lastrowid or the row's photo_id.  An
\* INSERT that takes the ON CONFLICT DO UPDATE path leaves the connection's
\* last insert rowid as it was.
UpsertReturn(existing, lastrowid) ==
    IF existing.photo_id = None THEN next_id["photos"]
    ELSE IF lastrowid # 0 THEN lastrowid
    ELSE existing.photo_id

\* The choice without the look at the stored faces: an unchanged file is
\* never detected again.
ShouldScanChangedOnly(photo_id, faces_in_db) == photo_id # None

\* should_scan_faces: True for a new or changed photo, else True when the
\* indexed photo has no stored face
should_scan_faces(photo_id, faces_in_db) ==
    IF photo_id # None THEN TRUE ELSE faces_in_db = {}

\* photo_id = self._index_photo(img_path), then the choice between face
\* detection and skipped += 1
ScanIndex ==
    /\ scan.pc = "index"
    /\ LET img_path == scan.all_images[scan.idx]
           phash    == disk[img_path]
           existing == get_photo_by_path(img_path)
           unchanged == existing.photo_id # None /\ existing.phash = phash
           photo_id == IF unchanged THEN None
                       ELSE UpsertReturn(existing, scan.lastrowid)
           faces_in_db == get_faces_for_photo(existing.photo_id)
           target_id == IF photo_id # None THEN photo_id ELSE existing.photo_id
           pre == IF unchanged THEN "same"
                  ELSE IF existing.photo_id = None THEN "new" ELSE "changed"
           s1 == [scan EXCEPT !.cur = [pre |-> pre,
                                       had_faces |-> unchanged /\ faces_in_db # {},
                                       detected |-> FALSE],
                              !.lastrowid = IF ~unchanged /\ existing.photo_id = None
                                            THEN next_id["photos"] ELSE @]
       IN  /\ photos' = IF unchanged THEN photos
                        ELSE [photos EXCEPT ![img_path] =
                                 [photo_id |-> IF existing.photo_id = None
                                               THEN next_id["photos"]
                                               ELSE existing.photo_id,
                                  phash |-> phash]]
           /\ next_id' = IF ~unchanged /\ existing.photo_id = None
                         THEN [next_id EXCEPT !["photos"] = @ + 1] ELSE next_id
           /\ scan' = IF (should_scan_faces(photo_id, faces_in_db) \/ scan.force_rescan)
                         /\ target_id # None
                      THEN [s1 EXCEPT !.pc = "detect", !.photo_id = target_id]
                      ELSE Skip(s1)
    /\ UNCHANGED <<faces, persons, mappings, marked, env_vars, req, cl, fm, web, fk>>

\* _index_faces: self.db.delete_faces_for_photo(photo_id), then
\* faces = detect_faces(img_path)
ScanDetect ==
    /\ scan.pc = "detect"
    /\ \E found \in DetectOutcomes :
          /\ next_id["faces"] + Len(found) <= MaxFaces + 1
          /\ LET deleted == get_faces_for_photo(scan.photo_id)
                 s1 == [scan EXCEPT !.cur.detected = TRUE, !.todo = found]
             IN  /\ faces' = RemainingFaces(deleted)
                 /\ mappings' = CascadeMappings(deleted)
                 /\ persons' = SetNullProfiles(deleted)
                 /\ scan' = IF found = <<>> THEN Added(s1)
                            ELSE [s1 EXCEPT !.pc = "insert"]
    /\ UNCHANGED <<photos, marked, next_id, env_vars, req, cl, fm, web, fk>>

\* face_id = self.db.insert_face(photo_id=photo_id, ...): faces.photo_id
\* REFERENCES photos(photo_id)
ScanInsert ==
    /\ scan.pc = "insert"
    /\ IF scan.photo_id \in PhotoIds
       THEN /\ faces' = [f \in FaceIds \cup {next_id["faces"]} |->
                            IF f \in FaceIds THEN faces[f]
                            ELSE [photo_id |-> scan.photo_id, emb |-> Head(scan.todo)]]
            /\ next_id' = [next_id EXCEPT !["faces"] = @ + 1]
            /\ scan' = [scan EXCEPT !.pc = "match", !.face_id = next_id["faces"],
                                    !.lastrowid = next_id["faces"]]
       ELSE /\ scan' = Caught(scan)
            /\ UNCHANGED <<faces, next_id>>
    /\ UNCHANGED <<photos, persons, mappings, marked, env_vars, req, cl, fm, web, fk>>

\* The known faces read from the tables again for every file.
KnownFacesReloaded(s) == _load_known_faces

\* The known_faces argument of self._index_faces(img_path, target_id,
\* known_faces): the list scan() loaded before the loop
KnownFaces(s) == s.known_faces

\* _find_match(face_emb, known_faces)
_find_match(face_emb, known_faces) ==
    IF known_faces = <<>> \/ face_emb = NoEmb THEN None
    ELSE find_best_match(face_emb, known_faces, get_threshold(ActiveBackend))

\* person_id = self._find_match(...); if person_id: map_face_to_person(...);
\* matched_count += 1; then count += 1 and the next face, or the return to
\* scan() after the last one
ScanMatch ==
    /\ scan.pc = "match"
    /\ LET face_emb  == Head(scan.todo)
           person_id == _find_match(face_emb, KnownFaces(scan))
           fresh     == <<person_id, scan.face_id>> \notin mappings
           s1 == [scan EXCEPT !.count = @ + 1, !.todo = Tail(@),
                              !.last_match = <<face_emb, person_id>>,
                              !.matched_count = IF person_id # None THEN @ + 1 ELSE @,
                              !.links = IF person_id # None /\ fresh THEN @ + 1 ELSE @,
                              !.lastrowid = IF person_id # None /\ fresh
                                            THEN next_id["person_face_mappings"]
                                            ELSE @]
       IN  IF person_id # None /\ ~MapAllowed(person_id, scan.face_id)
           THEN /\ scan' = Caught([scan EXCEPT !.last_match = <<face_emb, person_id>>])
                /\ UNCHANGED <<mappings, next_id>>
           ELSE /\ mappings' = IF person_id # None
                               THEN map_face_to_person(person_id, scan.face_id)
                               ELSE mappings
                /\ next_id' = IF person_id # None /\ fresh
                              THEN [next_id EXCEPT !["person_face_mappings"] = @ + 1]
                              ELSE next_id
                /\ scan' = IF Tail(scan.todo) = <<>> THEN Added(s1)
                           ELSE [s1 EXCEPT !.pc = "insert", !.face_id = None]
    /\ UNCHANGED <<photos, faces, persons, marked, env_vars, req, cl, fm, web, fk>>

\* for folder in folders: self.db.mark_folder_scanned(folder); return summary
ScanFinish ==
    /\ scan.pc = "finish"
    /\ marked' = [f \in DOMAIN marked |->
                     IF \E i \in 1..Len(scan.folders) : scan.folders[i] = f
                     THEN marked[f] + 1 ELSE marked[f]]
    /\ scan' = [scan EXCEPT !.pc = "done",
                            !.summary = [total |-> total, added |-> scan.added,
                                         skipped |-> scan.skipped,
                                         faces |-> scan.faces_found,
                                         matched |-> scan.auto_assigned]]
    /\ cancel' = FALSE
    /\ UNCHANGED <<photos, faces, persons, mappings, next_id, disk, req, cl, fm, web, fk>>

----------------------------------------------------------------------------
(* src/src/core/app_core.py and the handlers that call it                  *)
(* (src/src/web/server.py, src/src/gui/dialogs.py, main_window.py): one    *)
(* request thread.  req.pc is its place in the running method; pre is the  *)
(* links at the call, touched the faces whose links the call has written;  *)
(* n counts the requests made.                                             *)

ReqIdle ==
    [pc |-> "idle", op |-> "none", face_ids |-> <<>>, i |-> 0,
     person_id |-> None, unassigned |-> <<>>, known |-> <<>>, matches |-> 0,
     pre |-> {}, touched |-> {}, n |-> 0,
     path_to_delete |-> "", photos_deleted |-> 0]

\* The face_ids a caller passes: one or two distinct faces of the table.
FaceIdLists ==
    {<<f>> : f \in FaceIds} \cup
    {<<f, g>> : <<f, g>> \in {x \in FaceIds \X FaceIds : x[1] # x[2]}}

Begin(op, face_ids, person_id) ==
    [ReqIdle EXCEPT !.op = op, !.face_ids = face_ids, !.i = 1,
                    !.person_id = person_id, !.pre = mappings, !.n = req.n + 1]

\* The method returns or raises.
Return(r, outcome) == [r EXCEPT !.pc = outcome]

\* assign_faces_to_person(face_ids, person_id) is called
AssignStart ==
    /\ req.pc = "idle"
    /\ req.n < MaxRequests
    /\ \E face_ids \in FaceIdLists, person_id \in PersonIds :
          req' = [Begin("assign", face_ids, person_id) EXCEPT !.pc = "unmap"]
    /\ UNCHANGED <<db_vars, env_vars, scan, cl, fm, web, fk>>

\* create_person_from_faces(face_ids, name): person_id = self.db.create_person(
\* ..., profile_face_id=face_ids[0])
CreateStart ==
    /\ req.pc = "idle"
    /\ req.n < MaxRequests
    /\ next_id["persons"] <= MaxPersons
    /\ \E face_ids \in FaceIdLists :
          /\ persons' = [p \in PersonIds \cup {next_id["persons"]} |->
                            IF p \in PersonIds THEN persons[p]
                            ELSE [profile_face_id |-> face_ids[1]]]
          /\ req' = [Begin("create", face_ids, next_id["persons"]) EXCEPT
                        !.pc = "unmap"]
    /\ next_id' = [next_id EXCEPT !["persons"] = @ + 1]
    /\ UNCHANGED <<photos, faces, mappings, marked, env_vars, scan, cl, fm, web, fk>>

\* self.db.unmap_face(fid)
ReqUnmap ==
    /\ req.pc = "unmap"
    /\ mappings' = unmap_face(req.face_ids[req.i])
    /\ req' = [req EXCEPT !.pc = "map", !.touched = @ \cup {req.face_ids[req.i]}]
    /\ UNCHANGED <<photos, faces, persons, marked, next_id, env_vars, scan, cl, fm, web, fk>>

\* self.db.map_face_to_person(person_id, fid), then the next fid or the end
\* of the loop
ReqMap ==
    /\ req.pc = "map"
    /\ LET fid == req.face_ids[req.i]
       IN  IF MapAllowed(req.person_id, fid) \/ ~fk
           THEN /\ mappings' = map_face_to_person(req.person_id, fid)
                /\ next_id' = IF <<req.person_id, fid>> \in mappings THEN next_id
                              ELSE [next_id EXCEPT !["person_face_mappings"] = @ + 1]
                /\ req' = IF req.i < Len(req.face_ids)
                          THEN [req EXCEPT !.pc = "unmap", !.i = @ + 1]
                          ELSE IF req.op = "assign"
                          THEN [req EXCEPT !.pc = "profile"]
                          ELSE Return(req, "returned")
           ELSE /\ req' = Return(req, "raised")
                /\ UNCHANGED <<mappings, next_id>>
    /\ UNCHANGED <<photos, faces, persons, marked, env_vars, scan, cl, fm, web, fk>>

\* self.db.update_person(person_id, profile_face_id=face_ids[0]); return 0
ReqProfile ==
    /\ req.pc = "profile"
    /\ IF req.person_id \notin PersonIds
       THEN /\ req' = Return(req, "returned")
            /\ UNCHANGED persons
       ELSE IF req.face_ids[1] \in FaceIds \/ ~fk
       THEN /\ persons' = [persons EXCEPT ![req.person_id].profile_face_id =
                                             req.face_ids[1]]
            /\ req' = Return(req, "returned")
       ELSE /\ req' = Return(req, "raised")
            /\ UNCHANGED persons
    /\ UNCHANGED <<photos, faces, mappings, marked, next_id, env_vars, scan, cl, fm, web, fk>>

\* auto_match_all_unassigned(): unassigned = get_unassigned_faces();
\* known = self._get_all_known_embeddings(); either empty: return 0
AutoMatchStart ==
    /\ req.pc = "idle"
    /\ req.n < MaxRequests
    /\ LET unassigned == SortedSeq(get_unassigned_faces)
           rows  == [k \in 1..Len(unassigned) |->
                        <<unassigned[k], faces[unassigned[k]].emb>>]
           known == _load_known_faces
           r     == Begin("automatch", <<>>, None)
       IN  req' = IF rows = <<>> \/ known = <<>> THEN Return(r, "returned")
                  ELSE [r EXCEPT !.pc = "automatch", !.unassigned = rows,
                                 !.known = known]
    /\ UNCHANGED <<db_vars, env_vars, scan, cl, fm, web, fk>>

\* for face in unassigned: ... pid = find_best_match(emb, known, threshold);
\* if pid: map_face_to_person(pid, face["face_id"]); matches += 1
AutoMatchStep ==
    /\ req.pc = "automatch"
    /\ LET face == req.unassigned[req.i]
           pid  == IF face[2] = NoEmb THEN None
                   ELSE find_best_match(face[2], req.known, SIMILARITY_THRESHOLD)
           r1   == [req EXCEPT !.i = @ + 1,
                               !.matches = IF pid # None THEN @ + 1 ELSE @]
       IN  IF pid # None /\ ~MapAllowed(pid, face[1]) /\ fk
           THEN /\ req' = Return(req, "raised")
                /\ UNCHANGED <<mappings, next_id>>
           ELSE /\ mappings' = IF pid # None THEN map_face_to_person(pid, face[1])
                               ELSE mappings
                /\ next_id' = IF pid # None /\ <<pid, face[1]>> \notin mappings
                              THEN [next_id EXCEPT !["person_face_mappings"] = @ + 1]
                              ELSE next_id
                /\ req' = IF req.i < Len(req.unassigned) THEN r1
                          ELSE Return(r1, "returned")
    /\ UNCHANGED <<photos, faces, persons, marked, env_vars, scan, cl, fm, web, fk>>

\* The caller has the result (or the exception): the request is over.
ReqDone ==
    /\ req.pc \in {"returned", "raised"}
    /\ req' = [ReqIdle EXCEPT !.n = req.n]
    /\ UNCHANGED <<db_vars, env_vars, scan, cl, fm, web, fk>>

\* db.unmap_face(fid) of admin_faces_unassign and of the "unassign" choice
UnmapFace ==
    /\ req.pc = "idle"
    /\ req.n < MaxRequests
    /\ \E fid \in FaceIds :
          /\ mappings' = unmap_face(fid)
          /\ req' = [ReqIdle EXCEPT !.n = req.n + 1, !.op = "unmap_face"]
    /\ UNCHANGED <<photos, faces, persons, marked, next_id, env_vars, scan, cl, fm, web, fk>>

\* db.delete_person(person_id): person_face_mappings.person_id ON DELETE
\* CASCADE.  Its one caller is the desktop window, whose thread's connection
\* always enforces the foreign keys.
DeletePerson ==
    /\ req.pc = "idle"
    /\ req.n < MaxRequests
    /\ \E person_id \in PersonIds :
          /\ persons' = [p \in PersonIds \ {person_id} |-> persons[p]]
          /\ mappings' = {m \in mappings : m[1] # person_id}
          /\ req' = [ReqIdle EXCEPT !.n = req.n + 1, !.op = "delete_person"]
    /\ UNCHANGED <<photos, faces, marked, next_id, env_vars, scan, cl, fm, web, fk>>

\* remove_false_positive([fid]): self.db.delete_face(fid).  The cascade and
\* the SET NULL are the work of the connection's foreign-key enforcement.
DeleteFace ==
    /\ req.pc = "idle"
    /\ req.n < MaxRequests
    /\ \E fid \in FaceIds :
          /\ faces' = RemainingFaces({fid})
          /\ mappings' = IF fk THEN CascadeMappings({fid}) ELSE mappings
          /\ persons' = IF fk THEN SetNullProfiles({fid}) ELSE persons
          /\ req' = [ReqIdle EXCEPT !.n = req.n + 1, !.op = "delete_face"]
    /\ UNCHANGED <<photos, marked, next_id, env_vars, scan, cl, fm, web, fk>>

\* replace(path,'\\','/') LIKE norm + "/%": the photos whose path the pattern
\* of the folder matches.  LIKE compares without case and reads _ and % in
\* the folder's name as wildcards; neither folder of the model matches the
\* pattern of the other.
PathLike(path, folder_path) ==
    \E i \in 1..Len(walk_images(folder_path)) : walk_images(folder_path)[i] = path

\* photos_deleted = db.delete_photos_for_folder(path_to_delete) of
\* admin_folder_delete: no row, return 0; else PRAGMA foreign_keys=OFF, the
\* links of the faces of the photos, the faces and the photos are deleted,
\* return len(photo_ids).  PRAGMA foreign_keys=ON is issued inside the open
\* transaction, where sqlite ignores it: the connection is left without
\* foreign-key enforcement.  The folders of the model lie outside the uploads
\* directory, so the route deletes no file.
DeleteFolder ==
    /\ req.pc = "idle"
    /\ req.n < MaxRequests
    /\ \E k \in 1..Len(Folders) :
          LET rows == {p \in Paths : photos[p].photo_id # None
                                    /\ PathLike(p, Folders[k])}
              photo_ids == {photos[p].photo_id : p \in rows}
              deleted == {f \in FaceIds : faces[f].photo_id \in photo_ids}
              r1 == [ReqIdle EXCEPT !.n = req.n + 1, !.op = "delete_folder",
                                    !.path_to_delete = Folders[k]]
          IN  IF rows = {}
              THEN /\ req' = r1
                   /\ UNCHANGED <<photos, faces, mappings, fk>>
              ELSE /\ fk' = FALSE
                   /\ mappings' = {m \in mappings : m[2] \notin deleted}
                   /\ faces' = RemainingFaces(deleted)
                   /\ photos' = [p \in Paths |->
                                    IF p \in rows
                                    THEN [photo_id |-> None, phash |-> 0]
                                    ELSE photos[p]]
                   /\ req' = [r1 EXCEPT !.photos_deleted = Cardinality(photo_ids)]
    /\ UNCHANGED <<persons, marked, next_id, env_vars, scan, cl, fm, web>>

\* _get_conn: the next request is served by a thread that has no connection
\* yet; the one it opens runs PRAGMA foreign_keys=ON.
NewConnection ==
    /\ req.pc = "idle"
    /\ ~fk
    /\ fk' = TRUE
    /\ UNCHANGED <<db_vars, env_vars, scan, req, cl, fm, web>>

----------------------------------------------------------------------------
(* The environment *)

\* ScanDialog._cancel_scan: self._cancelled = True.  The flag is read only by
\* the check at the head of the loop, so a click at any other moment of the
\* run is the click just before the next check.
Cancel ==
    /\ scan.pc = "poll"
    /\ ~cancel
    /\ cancel' = TRUE
    /\ UNCHANGED <<db_vars, disk, scan, req, cl, fm, web, fk>>

\* The bytes of a file change: compute_file_hash gives another digest.  Only
\* _index_photo reads the file, once per run, so a change during a run is a
\* change before or after it.
ModifyFile ==
    /\ scan.pc \in {"idle", "done"}
    /\ \E path \in Paths :
          /\ disk[path] = 1
          /\ disk' = [disk EXCEPT ![path] = 2]
    /\ UNCHANGED <<db_vars, cancel, scan, req, cl, fm, web, fk>>

----------------------------------------------------------------------------
(* cluster_embeddings run on one input, an iteration of its loop at a time *)

ClIdle == [pc |-> "idle", embeddings |-> <<>>, threshold |-> 0, normed |-> <<>>,
           idx |-> 0, st |-> ClusterStart, result |-> <<>>]

CA == <<100, 0>>
CB == <<100, 1>>
CC == <<0, 100>>
CD == <<60, 60>>
CZ == <<0, 0>>

ClusterPool == {CA, CB, CC, CD, CZ}

RECURSIVE SeqsUpTo(_, _)
\* The sequences over S of length at most n
SeqsUpTo(S, n) ==
    IF n = 0 THEN {<<>>}
    ELSE LET shorter == SeqsUpTo(S, n - 1)
         IN  shorter \cup {Append(q, x) : q \in {r \in shorter : Len(r) = n - 1},
                                          x \in S}

\* Thresholds outside the range [0, 2] of a cosine distance: -0.1 and 3.
InvalidThresholds == {-((10 * Scale) \div 100), 3 * Scale}

\* Thresholds, in thousandths: 0.1, the three get_threshold() gives, 1 (the
\* distance of orthogonal embeddings) and 2; and the two outside the range.
ClusterThresholds ==
    {(10 * Scale) \div 100, Scale, 2 * Scale} \cup {get_threshold(b) : b \in Backends}
        \cup InvalidThresholds

\* if not embeddings: return []
ClusterEmpty ==
    /\ cl.pc = "call"
    /\ cl.embeddings = <<>>
    /\ cl' = [cl EXCEPT !.pc = "done", !.result = <<>>]
    /\ UNCHANGED <<db_vars, env_vars, scan, req, fm, web, fk>>

\* embs / norms
ClusterNormalize ==
    /\ cl.pc = "call"
    /\ cl.embeddings # <<>>
    /\ cl' = [cl EXCEPT !.pc = "loop",
                        !.normed = [i \in 1..Len(cl.embeddings) |->
                                       NormalizeRaw(cl.embeddings[i])]]
    /\ UNCHANGED <<db_vars, env_vars, scan, req, fm, web, fk>>

\* one iteration of for idx in range(len(normed))
ClusterStep ==
    /\ cl.pc = "loop"
    /\ cl.idx < Len(cl.normed)
    /\ cl' = [cl EXCEPT !.st = ClusterIter(cl.st, cl.idx, cl.normed[cl.idx + 1],
                                           cl.threshold),
                        !.idx = @ + 1]
    /\ UNCHANGED <<db_vars, env_vars, scan, req, fm, web, fk>>

\* return clusters
ClusterReturn ==
    /\ cl.pc = "loop"
    /\ cl.idx = Len(cl.normed)
    /\ cl' = [cl EXCEPT !.pc = "done", !.result = cl.st.clusters]
    /\ UNCHANGED <<db_vars, env_vars, scan, req, fm, web, fk>>

----------------------------------------------------------------------------
(* find_best_match called on one input *)

FmIdle == [pc |-> "idle", query_emb |-> NoEmb, known_embeddings |-> <<>>,
           threshold |-> 0, dists |-> <<>>, result |-> None]

\* Reference embeddings: from the query MA they are at the cosine distances
\* 0, 0.553, 0.901 and 1.
MA == <<100, 0>>
ME == <<50, 100>>
MF == <<10, 100>>
MC == <<0, 100>>

\* The queries: an embedding, the zero vector, None.
MatchQueries == {MA, <<0, 0>>, NoEmb}

\* The (person_id, embedding) pairs a known list is made of.
KnownPool == {<<pid, e>> : pid \in {1, 2}, e \in {MA, ME, MF, MC}}

\* Thresholds, in thousandths: the insightface threshold 0.40, whose vote
\* threshold is 0.80, and 1, which is above its vote threshold 0.80.
MatchThresholds == {get_threshold("insightface"), Scale}

\* if not known_embeddings or query_emb is None: return None;
\* if qnorm == 0: return None
MatchEarlyReturn ==
    /\ fm.pc = "call"
    /\ \/ fm.known_embeddings = <<>>
       \/ fm.query_emb = NoEmb
       \/ (fm.query_emb # NoEmb /\ RawNorm(fm.query_emb) = 0)
    /\ fm' = [fm EXCEPT !.pc = "done",
                        !.result = find_best_match(fm.query_emb, fm.known_embeddings,
                                                   fm.threshold)]
    /\ UNCHANGED <<db_vars, env_vars, scan, req, cl, web, fk>>

\* the distances, the loop over unique_persons, return best_person
MatchLoop ==
    /\ fm.pc = "call"
    /\ fm.known_embeddings # <<>>
    /\ fm.query_emb # NoEmb
    /\ RawNorm(fm.query_emb) # 0
    /\ fm' = [fm EXCEPT !.pc = "done",
                        !.dists = KnownDists(NormalizeRaw(fm.query_emb),
                                             fm.known_embeddings),
                        !.result = find_best_match(fm.query_emb, fm.known_embeddings,
                                                   fm.threshold)]
    /\ UNCHANGED <<db_vars, env_vars, scan, req, cl, web, fk>>

----------------------------------------------------------------------------
(* src/src/web/server.py: admin_scan, its run_scan threads and              *)
(* _scan_progress.  web.pc[t] is the place of thread t in run_scan: "none"  *)
(* (not started), "start" (Thread.start() done), "scan" (inside             *)
(* scanner.scan), "done" (run_scan returned) or "died" (the exception of    *)
(* scanner.scan ended the thread).  all_images, idx and face are the        *)
(* thread's scan: its files, its loop index, and whether face_found_cb was  *)
(* called for the current file.  What scanner.scan does to the tables is    *)
(* the subject of the scan actions above; here it is the caller of the two  *)
(* callbacks that returns a summary or raises.                              *)

WebThreads == 1..MaxWebScans

\* The folder the web /admin/scan is asked to scan.
OneFolder == {<<Folders[1]>>}

WebIdle ==
    [running |-> FALSE, current |-> 0, total |-> 0, faces |-> 0,
     summary |-> None,
     pc |-> [t \in WebThreads |-> "none"],
     all_images |-> [t \in WebThreads |-> <<>>],
     idx |-> [t \in WebThreads |-> 0],
     face |-> [t \in WebThreads |-> FALSE]]

\* POST /admin/scan: folders = [specific_folder] or all the allowed folders;
\* threading.Thread(target=run_scan, daemon=True).start(); _scan_progress is
\* not read.
admin_scan ==
    \E t \in WebThreads, folders \in OneFolder \cup {Folders} :
       /\ web.pc[t] = "none"
       /\ \A u \in WebThreads : u < t => web.pc[u] # "none"
       /\ web' = [web EXCEPT !.pc[t] = "start",
                             !.all_images[t] = AllImages(folders)]
       /\ UNCHANGED <<db_vars, env_vars, scan, req, cl, fm, fk>>

\* run_scan: with _scan_progress_lock: running = True, current = 0,
\* total = 0, faces = 0, summary = None
RunScanBegin(t) ==
    /\ web.pc[t] = "start"
    /\ web' = [web EXCEPT !.running = TRUE, !.current = 0, !.total = 0,
                          !.faces = 0, !.summary = None, !.pc[t] = "scan"]
    /\ UNCHANGED <<db_vars, env_vars, scan, req, cl, fm, fk>>

\* scanner.scan: self._progress_cb(idx, total, ...) for the next file
\* (cancelled_cb is the default, which never cancels)
progress_cb(t) ==
    /\ web.pc[t] = "scan"
    /\ web.idx[t] < Len(web.all_images[t])
    /\ web' = [web EXCEPT !.idx[t] = @ + 1, !.face[t] = FALSE,
                          !.current = web.idx[t] + 1,
                          !.total = Len(web.all_images[t])]
    /\ UNCHANGED <<db_vars, env_vars, scan, req, cl, fm, fk>>

\* scanner.scan: self._face_found_cb(thumb) for a face of the current file
face_found_cb(t) ==
    /\ web.pc[t] = "scan"
    /\ web.idx[t] >= 1
    /\ ~web.face[t]
    /\ web' = [web EXCEPT !.face[t] = TRUE, !.faces = @ + 1]
    /\ UNCHANGED <<db_vars, env_vars, scan, req, cl, fm, fk>>

\* scanner.scan raises outside the try of its loop (_load_known_faces or
\* mark_folder_scanned: sqlite3.OperationalError, database is locked);
\* run_scan has no handler and the thread ends.
RunScanRaise(t) ==
    /\ web.pc[t] = "scan"
    /\ web.idx[t] \in {0, Len(web.all_images[t])}
    /\ web' = [web EXCEPT !.pc[t] = "died"]
    /\ UNCHANGED <<db_vars, env_vars, scan, req, cl, fm, fk>>

\* summary = scanner.scan(folders); with _scan_progress_lock:
\* running = False, summary = summary
RunScanEnd(t) ==
    /\ web.pc[t] = "scan"
    /\ web.idx[t] = Len(web.all_images[t])
    /\ web' = [web EXCEPT !.running = FALSE,
                          !.summary = [total |-> Len(web.all_images[t])],
                          !.pc[t] = "done"]
    /\ UNCHANGED <<db_vars, env_vars, scan, req, cl, fm, fk>>

\* A step of thread t that the scheduler owes it: every step but the raise.
RunScanStep(t) ==
    RunScanBegin(t) \/ progress_cb(t) \/ face_found_cb(t) \/ RunScanEnd(t)

----------------------------------------------------------------------------
(* Specifications *)

\* An empty database, two folders with one file each, both threads idle.
Init ==
    /\ photos = [p \in Paths |-> [photo_id |-> None, phash |-> 0]]
    /\ faces = <<>>
    /\ persons = <<>>
    /\ mappings = {}
    /\ marked = [f \in {Folders[i] : i \in 1..Len(Folders)} |-> 0]
    /\ next_id = [t \in Tables |-> 1]
    /\ disk = [p \in Paths |-> 1]
    /\ cancel = FALSE
    /\ scan = ScanIdle
    /\ req = ReqIdle
    /\ cl = ClIdle
    /\ fm = FmIdle
    /\ web = WebIdle
    /\ fk = TRUE

\* The whole program: one scan thread over one folder, one request thread, the
\* user and the file system, all interleaved.
Next ==
    \/ \E folders \in OneFolder, force_rescan \in BOOLEAN :
          ScanStart(folders, force_rescan)
    \/ ScanCancelled
    \/ ScanPoll
    \/ ScanLoopEnd
    \/ ScanIndexRaise
    \/ ScanIndex
    \/ ScanDetect
    \/ ScanInsert
    \/ ScanMatch
    \/ ScanFinish
    \/ AssignStart
    \/ CreateStart
    \/ ReqUnmap
    \/ ReqMap
    \/ ReqProfile
    \/ AutoMatchStart
    \/ AutoMatchStep
    \/ ReqDone
    \/ UnmapFace
    \/ DeletePerson
    \/ DeleteFace
    \/ Cancel
    \/ ModifyFile

Spec == Init /\ [][Next]_vars

\* ScanDialog: a scan of all the registered folders
ScanAll ==
    /\ req.pc = "idle"
    /\ \E force_rescan \in BOOLEAN : ScanStart(Folders, force_rescan)

\* Between two scans the user names a person from faces of the gallery.
NamePerson ==
    /\ scan.pc \in {"idle", "done"}
    /\ (CreateStart \/ ReqUnmap \/ ReqMap \/ ReqDone)

\* The scanner alone: scans of all the folders with the user and the file
\* system, persons named only between the scans.
NextScan ==
    \/ ScanAll
    \/ ScanCancelled
    \/ ScanPoll
    \/ ScanLoopEnd
    \/ ScanIndexRaise
    \/ ScanIndex
    \/ ScanDetect
    \/ ScanInsert
    \/ ScanMatch
    \/ ScanFinish
    \/ NamePerson
    \/ Cancel
    \/ ModifyFile

SpecScan == Init /\ [][NextScan]_vars

\* The application opened on a gallery that earlier runs left: a.jpg scanned
\* with two faces, each named as a person of its own; b.jpg not scanned yet.
\* Spec reaches these tables from the empty ones by one scan and two
\* create_person_from_faces requests.
InitDb ==
    /\ photos = [p \in Paths |-> IF p = "a.jpg" THEN [photo_id |-> 1, phash |-> 1]
                                ELSE [photo_id |-> None, phash |-> 0]]
    /\ faces = <<[photo_id |-> 1, emb |-> EB], [photo_id |-> 1, emb |-> EA]>>
    /\ persons = <<[profile_face_id |-> 1], [profile_face_id |-> 2]>>
    /\ mappings = {<<1, 1>>, <<2, 2>>}
    /\ marked = [f \in {Folders[i] : i \in 1..Len(Folders)} |->
                    IF f = "A" THEN 1 ELSE 0]
    /\ next_id = [t \in Tables |-> IF t = "photos" THEN 2 ELSE 3]
    /\ disk = [p \in Paths |-> 1]
    /\ cancel = FALSE
    /\ scan = ScanIdle
    /\ req = ReqIdle
    /\ cl = ClIdle
    /\ fm = FmIdle
    /\ web = WebIdle
    /\ fk = TRUE

\* The gallery and its maintenance: a scan thread, the requests that assign,
\* unassign and delete, the deletion of a folder, and the file system.
NextDb ==
    \/ \E folders \in OneFolder, force_rescan \in BOOLEAN :
          ScanStart(folders, force_rescan)
    \/ ScanPoll
    \/ ScanLoopEnd
    \/ ScanIndexRaise
    \/ ScanIndex
    \/ ScanDetect
    \/ ScanInsert
    \/ ScanMatch
    \/ ScanFinish
    \/ AssignStart
    \/ ReqUnmap
    \/ ReqMap
    \/ ReqProfile
    \/ ReqDone
    \/ UnmapFace
    \/ DeletePerson
    \/ DeleteFace
    \/ DeleteFolder
    \/ NewConnection
    \/ ModifyFile

SpecDb == InitDb /\ [][NextDb]_vars

\* The web server's scans: the POSTs of /admin/scan and their threads.
NextWeb ==
    \/ admin_scan
    \/ \E t \in WebThreads : RunScanBegin(t)
    \/ \E t \in WebThreads : progress_cb(t)
    \/ \E t \in WebThreads : face_found_cb(t)
    \/ \E t \in WebThreads : RunScanRaise(t)
    \/ \E t \in WebThreads : RunScanEnd(t)

SpecWeb == Init /\ [][NextWeb]_vars

\* Every started thread is scheduled again and again: a thread that can take
\* a step of run_scan takes one.  Nothing obliges scanner.scan to raise.
SpecWebLive == SpecWeb /\ \A t \in WebThreads : WF_vars(RunScanStep(t))

\* cluster_embeddings on every input of at most MaxLen embeddings.
InitCluster ==
    /\ photos = [p \in Paths |-> [photo_id |-> None, phash |-> 0]]
    /\ faces = <<>>
    /\ persons = <<>>
    /\ mappings = {}
    /\ marked = [f \in {Folders[i] : i \in 1..Len(Folders)} |-> 0]
    /\ next_id = [t \in Tables |-> 1]
    /\ disk = [p \in Paths |-> 1]
    /\ cancel = FALSE
    /\ scan = ScanIdle
    /\ req = ReqIdle
    /\ fm = FmIdle
    /\ web = WebIdle
    /\ fk = TRUE
    /\ \E embeddings \in SeqsUpTo(ClusterPool, MaxLen),
          threshold \in ClusterThresholds :
          cl = [ClIdle EXCEPT !.pc = "call", !.embeddings = embeddings,
                              !.threshold = threshold]

NextCluster == ClusterEmpty \/ ClusterNormalize \/ ClusterStep \/ ClusterReturn

SpecCluster == InitCluster /\ [][NextCluster]_vars

\* find_best_match on every query, every known list of at most MaxKnown pairs
\* and every threshold of the sets above. With a query that is None or the zero
\* vector the function reads of known only whether it is empty: these queries
\* come with the known lists of at most one pair, and so do the thresholds
\* outside [0, 2].
InitMatch ==
    /\ photos = [p \in Paths |-> [photo_id |-> None, phash |-> 0]]
    /\ faces = <<>>
    /\ persons = <<>>
    /\ mappings = {}
    /\ marked = [f \in {Folders[i] : i \in 1..Len(Folders)} |-> 0]
    /\ next_id = [t \in Tables |-> 1]
    /\ disk = [p \in Paths |-> 1]
    /\ cancel = FALSE
    /\ scan = ScanIdle
    /\ req = ReqIdle
    /\ cl = ClIdle
    /\ web = WebIdle
    /\ fk = TRUE
    /\ \E query_emb \in MatchQueries,
          known_embeddings \in SeqsUpTo(KnownPool, MaxKnown),
          threshold \in MatchThresholds \cup InvalidThresholds :
          /\ (query_emb = NoEmb \/ RawNorm(query_emb) = 0) => Len(known_embeddings) <= 1
          /\ threshold \in InvalidThresholds => Len(known_embeddings) <= 1
          /\ fm = [FmIdle EXCEPT !.pc = "call", !.query_emb = query_emb,
                              !.known_embeddings = known_embeddings,
                              !.threshold = threshold]

NextMatch == MatchEarlyReturn \/ MatchLoop

SpecMatch == InitMatch /\ [][NextMatch]_vars


----------------------------------------------------------------------------
(* Properties of cluster_embeddings (under SpecCluster) *)

\* The places <<k, j>> of a list of clusters at which index i stands.
PlacesOf(result, i) ==
    {pl \in {<<k, j>> : k \in 1..Len(result), j \in 1..MaxLen} :
        pl[2] <= Len(result[pl[1]]) /\ result[pl[1]][pl[2]] = i}

\* C10: for every input of N embeddings and every threshold the clusters
\* cluster_embeddings returns are a partition of the indices 0..N-1: every
\* index stands in exactly one cluster at exactly one place, every member is
\* such an index and no cluster is empty; the empty input gives the empty
\* result and a single embedding gives one singleton cluster.
C10_Partition ==
    cl.pc = "done" =>
        LET N == Len(cl.embeddings)
        IN  /\ \A k \in 1..Len(cl.result) :
                   /\ cl.result[k] # <<>>
                   /\ \A j \in 1..Len(cl.result[k]) : cl.result[k][j] \in 0..(N - 1)
            /\ \A i \in 0..(N - 1) : Cardinality(PlacesOf(cl.result, i)) = 1
            /\ (N = 0 => cl.result = <<>>)
            /\ (N = 1 => cl.result = << <<0>> >>)
            /\ cl.result = cluster_embeddings(cl.embeddings, cl.threshold)

\* A run on MaxLen embeddings that returned several clusters, one of them
\* with several members.
C10_Witness ==
    /\ cl.pc = "done"
    /\ Len(cl.embeddings) = MaxLen
    /\ Len(cl.result) >= 2
    /\ \E k \in 1..Len(cl.result) : Len(cl.result[k]) >= 2

\* The step is an iteration of the loop of cluster_embeddings.
ClusterStepTaken == cl.pc = "loop" /\ cl'.pc = "loop" /\ cl'.idx = cl.idx + 1

\* The cosine distances of the embedding about to be processed to the leaders.
StepDists ==
    [c \in 1..Len(cl.st.leaders) |->
        Scale - (Dot(cl.st.leaders[c], cl.normed[cl.idx + 1]) \div Scale)]

\* C11: an embedding processed when a leader exists is appended to the
\* cluster whose leader is at minimum cosine distance if and only if that
\* distance is strictly less than the threshold; at a minimum distance greater
\* than or equal to the threshold it starts a new cluster with itself as
\* leader.  A = [1,0], B = [1,0.01], C = [0,1] with threshold 0.1 give
\* [[0,1],[2]].
C11_JoinIffStrictlyCloser ==
    [][ /\ (ClusterStepTaken /\ cl.st.leaders # <<>> =>
               LET dists == StepDists
                   near  == {c \in DOMAIN dists :
                                \A k \in DOMAIN dists : dists[c] <= dists[k]}
                   b     == CHOOSE c \in near : \A k \in near : c <= k
               IN  IF dists[b] < cl.threshold
                   THEN /\ cl'.st.clusters =
                              [cl.st.clusters EXCEPT ![b] = Append(@, cl.idx)]
                        /\ Len(cl'.st.leaders) = Len(cl.st.leaders)
                   ELSE /\ cl'.st.clusters = Append(cl.st.clusters, <<cl.idx>>)
                        /\ cl'.st.leaders =
                              Append(cl.st.leaders, cl.normed[cl.idx + 1]))
        /\ (cl'.pc = "done" /\ cl'.embeddings = <<CA, CB, CC>>
               /\ cl'.threshold = (10 * Scale) \div 100 =>
               cl'.result = << <<0, 1>>, <<2>> >>) ]_vars

\* The run on A, B, C with threshold 0.1 has returned.
C11_Witness ==
    /\ cl.pc = "done"
    /\ cl.embeddings = <<CA, CB, CC>>
    /\ cl.threshold = (10 * Scale) \div 100
    /\ cl.result = << <<0, 1>>, <<2>> >>

\* C12: in the result of cluster_embeddings the indices of each cluster are
\* in strictly increasing input order and the clusters stand in the order in
\* which they were formed, that is by their first member, index 0 being the
\* first member of the first cluster; no sort by size is applied.
C12_FormationOrder ==
    cl.pc = "done" =>
        /\ \A k \in 1..Len(cl.result) :
               \A i, j \in 1..Len(cl.result[k]) :
                   i < j => cl.result[k][i] < cl.result[k][j]
        /\ \A k, m \in 1..Len(cl.result) :
               k < m => cl.result[k][1] < cl.result[m][1]
        /\ (cl.embeddings # <<>> => cl.result[1][1] = 0)

\* A returned result whose second cluster is larger than its first and has
\* members that are not neighbours in the input.
C12_Witness ==
    /\ cl.pc = "done"
    /\ cl.result = << <<0>>, <<1, 3>>, <<2>> >>

\* The embeddings of one cluster of a result, in the order of the cluster.
MembersOf(embeddings, cluster) ==
    [j \in 1..Len(cluster) |-> embeddings[cluster[j] + 1]]

\* C13: re-clustering is idempotent: cluster_embeddings run again, with the
\* same threshold, on the embeddings of one cluster it returned (in the order
\* of the cluster) gives exactly one cluster that holds all of them.
C13_Idempotent ==
    cl.pc = "done" =>
        \A k \in 1..Len(cl.result) :
            cluster_embeddings(MembersOf(cl.embeddings, cl.result[k]), cl.threshold)
                = << [j \in 1..Len(cl.result[k]) |-> j - 1] >>

\* A returned result with a cluster of three members that are not the first
\* three of the input, beside another cluster.
C13_Witness ==
    /\ cl.pc = "done"
    /\ Len(cl.result) = 2
    /\ \E k \in 1..2 : Len(cl.result[k]) = 3 /\ cl.result[k] # <<0, 1, 2>>
    /\ \E i, j \in 1..Len(cl.embeddings) : cl.embeddings[i] # cl.embeddings[j]

----------------------------------------------------------------------------
(* Properties of the whole program (under Spec) *)

\* C1: in every reachable state, after any interleaving of the scan's
\* auto-assignment, auto_match_all_unassigned, assign_faces_to_person,
\* create_person_from_faces and unmap_face, each face is linked to at most one
\* identity.
C1_AtMostOneIdentity ==
    \A f \in FaceIds : Cardinality(PersonsOf(f)) <= 1

\* The scan thread is inside a run.
ScanRunning == scan.pc \notin {"idle", "done"}

\* The step is ScanMatch: the scan thread leaves its place "match".
MatchStep == scan.pc = "match" /\ scan' # scan

\* C7: every face the detector reports is persisted before matching is
\* attempted; the step that matches a face creates a link for it if and only
\* if find_best_match returned an identity for it, the link is to exactly that
\* identity, and the summary's auto-assigned count equals the number of links
\* the run created.
C7_LinkIffMatch ==
    [][ /\ (scan.pc = "insert" /\ scan'.pc = "match" =>
               scan'.face_id \in DOMAIN faces')
        /\ (MatchStep =>
               LET person_id == _find_match(Head(scan.todo), scan.known_faces)
               IN  IF person_id # None
                   THEN mappings' = mappings \cup {<<person_id, scan.face_id>>}
                   ELSE mappings' = mappings)
        /\ (scan'.pc = "done" => scan'.summary.matched = scan'.links) ]_vars

\* C8: the known embeddings are loaded once per run, before the first file:
\* while the run goes on the list is the one loaded at its start, and every
\* face of the run is matched against this list, whatever links, faces and
\* persons the run or another thread changed meanwhile.
C8_OneSnapshot ==
    [][ /\ (scan'.pc = "poll" /\ scan'.idx = 1 /\ scan'.polls = 0 /\ scan' # scan
               => scan'.known_faces = _load_known_faces)
        /\ (ScanRunning /\ scan'.runs = scan.runs
               => scan'.known_faces = scan.known_faces)
        /\ (MatchStep =>
               scan'.last_match =
                   <<Head(scan.todo), _find_match(Head(scan.todo), scan.known_faces)>>)
      ]_vars

\* A run has matched a face to a person of its list while the tables no
\* longer give that list.
C8_Witness ==
    /\ ScanRunning
    /\ scan.last_match[2] # None
    /\ scan.known_faces # _load_known_faces

\* The links of the faces the running call was given, and the faces it wrote.
AssignPost ==
    /\ \A k \in 1..Len(req.face_ids) :
           PersonsOf(req.face_ids[k]) = {req.person_id}
    /\ req.touched \subseteq {req.face_ids[k] : k \in 1..Len(req.face_ids)}

\* C9: when assign_faces_to_person(face_ids, p) or create_person_from_faces(
\* face_ids, ...) has returned, every face of face_ids is linked to exactly
\* the target identity and to no other; the call wrote the links of no face
\* outside face_ids.
C9_LinkedToTargetOnly ==
    [][ (req.pc # "returned" /\ req'.pc = "returned"
            /\ req.op \in {"assign", "create"}) => AssignPost' ]_vars

----------------------------------------------------------------------------
(* Properties of the scanner (under SpecScan) *)

\* The files of the run's log that satisfy a condition.
Detected(log) == {i \in 1..Len(log) : log[i].detected}
WithOutcome(log, outcomes) == {i \in 1..Len(log) : log[i].outcome \in outcomes}

\* C2: the cancel predicate is polled before each file; once it is true no
\* further file is indexed or sent to the detector; when it becomes true after
\* k files at most k files show detection, and the summary's total is still
\* the number of enumerated files.
C2_CancelBeforeEachFile ==
    /\ (scan.pc \in {"index", "detect", "insert", "match"} =>
            /\ ~cancel
            /\ scan.polls = scan.idx
            /\ Len(scan.log) = scan.idx - 1)
    /\ (scan.cancelled =>
            /\ scan.pc \in {"finish", "done"}
            /\ Len(scan.log) = scan.polls - 1
            /\ Cardinality(Detected(scan.log)) <= scan.polls - 1)
    /\ (scan.pc = "done" =>
            scan.summary.total = Len(AllImages(scan.folders)))

\* A run cancelled after the first of two files, which was detected.
C2_Witness ==
    /\ scan.pc = "done"
    /\ scan.cancelled
    /\ scan.polls = 2
    /\ Detected(scan.log) = {1}
    /\ scan.summary.total = 2

\* C3: when a scan ended because the cancel predicate returned true, no
\* folder is marked as scanned: only a run that was not cancelled marks.
C3_CancelledMarksNothing ==
    [][scan.cancelled => marked' = marked]_vars

\* C4: with force_rescan false, a file whose hash equals the stored one (and
\* that has stored faces, see C5) is not detected again and counts as skipped;
\* a file not yet indexed or whose hash changed is detected and counts as
\* added.
C4_SkipUnchangedAddNew ==
    ~scan.force_rescan =>
        \A i \in 1..Len(scan.log) :
            /\ (scan.log[i].pre = "same" /\ scan.log[i].had_faces =>
                    ~scan.log[i].detected /\ scan.log[i].outcome = "skipped")
            /\ (scan.log[i].pre \in {"new", "changed"} =>
                    scan.log[i].detected /\ scan.log[i].outcome = "added")

\* C5: with force_rescan false, a file already indexed with a matching hash
\* and no stored face has detection run on it.
C5_ZeroFacesDetected ==
    ~scan.force_rescan =>
        /\ \A i \in 1..Len(scan.log) :
               (scan.log[i].pre = "same" /\ ~scan.log[i].had_faces) =>
                   scan.log[i].detected
        /\ (scan.cur.pre = "same" /\ ~scan.cur.had_faces) =>
               scan.pc \in {"detect", "insert", "match"}

\* A run without force_rescan that detected an unchanged file with no stored
\* face and found a face in it.
C5_Witness ==
    /\ ~scan.force_rescan
    /\ \E i \in 1..Len(scan.log) :
          /\ scan.log[i].pre = "same"
          /\ ~scan.log[i].had_faces
          /\ scan.log[i].detected
    /\ scan.faces_found > 0

\* C6: a failure while one file is indexed or detected is caught inside
\* scan: the file adds exactly one to skipped, the files after it are still
\* processed unless the run is cancelled, and scan returns its summary.
C6_FailureIsSkipped ==
    /\ scan.skipped = Cardinality(WithOutcome(scan.log, {"raised", "skipped"}))
    /\ scan.added = Cardinality(WithOutcome(scan.log, {"added"}))
    /\ (scan.pc \in {"finish", "done"} /\ ~scan.cancelled =>
            Len(scan.log) = Len(scan.all_images))
    /\ (scan.pc = "done" =>
            /\ scan.summary.skipped = scan.skipped
            /\ scan.summary.added = scan.added)

\* A finished run whose first file raised and whose second file was added.
C6_Witness ==
    /\ scan.pc = "done"
    /\ ~scan.cancelled
    /\ Len(scan.log) = 2
    /\ scan.log[1].outcome = "raised"
    /\ scan.log[2].outcome = "added"
    /\ scan.summary.skipped = 1

----------------------------------------------------------------------------
(* Properties of find_best_match (SpecMatch) *)

\* The call got past the early returns: a query that is an embedding of
\* non-zero norm and a non-empty known list.
MatchRan ==
    /\ fm.pc = "done"
    /\ fm.known_embeddings # <<>>
    /\ fm.query_emb # NoEmb
    /\ RawNorm(fm.query_emb) # 0

\* The cosine distance of the query to each entry of known.
QueryDists == fm.dists

\* The entries of known that belong to an identity.
SamplesOf(pid) == PersonRows(fm.known_embeddings, pid)

\* C14: find_best_match returns an identity only if that identity has a sample
\* whose cosine distance to the query is strictly below the threshold; when
\* every sample of known is at or beyond the threshold it returns none.
C14_OnlyWithinThreshold ==
    MatchRan =>
        /\ fm.result # None =>
               \E i \in SamplesOf(fm.result) : QueryDists[i] < fm.threshold
        /\ (\A i \in 1..Len(fm.known_embeddings) : QueryDists[i] >= fm.threshold)
               => fm.result = None

\* An identity is returned while another identity has a sample exactly at the
\* threshold.
C14_Witness ==
    /\ MatchRan
    /\ fm.result # None
    /\ \E i \in 1..Len(fm.known_embeddings) :
          /\ fm.known_embeddings[i][1] # fm.result
          /\ QueryDists[i] = fm.threshold

\* The identities of known.
KnownPersons == {fm.known_embeddings[i][1] : i \in 1..Len(fm.known_embeddings)}

\* The distance of an identity's closest sample.
BestOf(pid) == MinDist(QueryDists, SamplesOf(pid))

\* The samples of an identity closer to the query than min(2*threshold, 0.80).
CloseSamples(pid) ==
    LET vote == IF 2 * fm.threshold < (80 * Scale) \div 100
                THEN 2 * fm.threshold ELSE (80 * Scale) \div 100
    IN  {i \in SamplesOf(pid) : QueryDists[i] < vote}

\* At least 3 samples, fewer than 30% of them close.
LacksSupport(pid) ==
    /\ Cardinality(SamplesOf(pid)) >= 3
    /\ Cardinality(CloseSamples(pid)) * 10 < 3 * Cardinality(SamplesOf(pid))

Survivors == {pid \in KnownPersons : ~LacksSupport(pid)}

\* C16: a returned identity has the smallest minimum distance of the
\* identities that passed the majority-support filter; and a surviving
\* identity whose minimum distance is below the threshold and strictly below
\* that of every other survivor is returned, whatever the distances of the
\* excluded identities.
C16_ClosestSurvivor ==
    MatchRan =>
        /\ fm.result # None =>
               \A pid \in Survivors : BestOf(pid) >= BestOf(fm.result)
        /\ \A pid \in Survivors :
              (/\ BestOf(pid) < fm.threshold
               /\ \A q \in Survivors \ {pid} : BestOf(q) > BestOf(pid))
                  => fm.result = pid

\* An identity is returned while an excluded identity has a sample closer to
\* the query than any of its samples.
C16_Witness ==
    /\ MatchRan
    /\ fm.result # None
    /\ \E q \in KnownPersons \ Survivors : BestOf(q) < BestOf(fm.result)

\* known with the entries i and i + 1 exchanged.
SwapAdjacent(known, i) ==
    [j \in 1..Len(known) |-> IF j = i THEN known[i + 1]
                             ELSE IF j = i + 1 THEN known[i]
                             ELSE known[j]]

\* The surviving identities at the smallest minimum distance, when that
\* distance is below the threshold.
ClosestSurvivors ==
    {p \in Survivors : /\ BestOf(p) < fm.threshold
                       /\ \A q \in Survivors : BestOf(q) >= BestOf(p)}

\* C17: the result does not depend on the order of the entries of known:
\* exchanging two adjacent entries of any known list leaves the result the
\* same (every permutation is a product of such exchanges, and every known list
\* of the model is checked); and when several surviving identities share the
\* smallest minimum distance, below the threshold, the lowest id among them is
\* returned.
C17_OrderIndependent ==
    MatchRan =>
        /\ \A i \in 1..(Len(fm.known_embeddings) - 1) :
              find_best_match(fm.query_emb, SwapAdjacent(fm.known_embeddings, i),
                              fm.threshold) = fm.result
        /\ Cardinality(ClosestSurvivors) >= 2 =>
              /\ fm.result \in ClosestSurvivors
              /\ \A q \in ClosestSurvivors : fm.result <= q

\* Two identities tie at the smallest distance, the entry of the higher id
\* comes first in known, and the lower id is returned.
C17_Witness ==
    /\ MatchRan
    /\ Cardinality(ClosestSurvivors) >= 2
    /\ fm.known_embeddings[1][1] > fm.result
    /\ fm.result # None

\* C18: whenever known is empty, whatever the query, and whenever the query is
\* None, the call of find_best_match ends by returning none.
C18_NoneOnEmptyOrNull ==
    (fm.pc = "done" /\ (fm.known_embeddings = <<>> \/ fm.query_emb = NoEmb))
        => fm.result = None

\* The call returned on a None query with a non-empty known list.
C18_Witness ==
    /\ fm.pc = "done"
    /\ fm.query_emb = NoEmb
    /\ fm.known_embeddings # <<>>
    /\ fm.result = None

----------------------------------------------------------------------------
(* Properties of faces without embedding (SpecScan) *)

\* _index_faces is about to insert a detected face that has no embedding.
InsertsNullFace == scan.pc = "insert" /\ Head(scan.todo) = NoEmb

\* The step stores the face, with its empty embedding.
NullFaceStored ==
    /\ scan'.pc = "match"
    /\ scan'.face_id \in DOMAIN faces'
    /\ scan'.face_id \notin DOMAIN faces
    /\ faces'[scan'.face_id].emb = NoEmb

\* A step of the scan thread or of auto_match_all_unassigned.
AutoAssignStep == scan' # scan \/ req.pc = "automatch"

\* The groups of cluster_unknown_faces and the clusters of admin_naming keep
\* every face without embedding alone and without suggestion.
NullFacesAlone ==
    (\E f \in get_unassigned_faces : faces[f].emb = NoEmb) =>
        LET groups   == cluster_unknown_faces(SIMILARITY_THRESHOLD)
            clusters == admin_naming
        IN  /\ \A k \in 1..Len(groups) :
                  \A j \in 1..Len(groups[k].face_ids) :
                      faces[groups[k].face_ids[j]].emb = NoEmb =>
                          /\ Len(groups[k].face_ids) = 1
                          /\ groups[k].suggestion = None
            /\ \A k \in 1..Len(clusters) :
                  \A j \in 1..Len(clusters[k]) :
                      faces[clusters[k][j]].emb = NoEmb => Len(clusters[k]) = 1

\* C19: a face whose embedding is null is persisted by the scan, is never
\* linked to an identity by the scan or by auto_match_all_unassigned, is
\* never in a cluster with another face and never has a suggestion.
C19_NullEmbeddingFace ==
    [][ /\ InsertsNullFace /\ scan' # scan => NullFaceStored
        /\ AutoAssignStep =>
               \A m \in mappings' \ mappings : faces[m[2]].emb # NoEmb
        /\ NullFacesAlone ]_vars

----------------------------------------------------------------------------
(* Properties of matching and the identities (Spec) *)

\* The identities of a known list.
IdsOf(known) == {known[i][1] : i \in 1..Len(known)}

\* A step of the scan thread, or of auto_match_all_unassigned.
ScanStep == scan' # scan
AutoMatchRuns == req' # req /\ req'.op = "automatch"

\* C20: matching never creates identities: the identity find_best_match
\* returns to the scan or to auto_match_all_unassigned is one of the known list
\* it was given, and no step of the scan or of auto_match_all_unassigned
\* adds or removes a person record.
C20_NoIdentityCreated ==
    [][ /\ (ScanStep \/ AutoMatchRuns) => DOMAIN persons' = DOMAIN persons
        /\ MatchStep =>
               scan'.last_match[2] \in {None} \cup IdsOf(scan.known_faces)
        /\ (req.pc = "automatch" /\ req' # req) =>
               \A m \in mappings' \ mappings : m[1] \in IdsOf(req.known) ]_vars

\* The scan and auto_match_all_unassigned have both linked a face to an
\* identity.
C20_Witness ==
    /\ scan.links > 0
    /\ req.op = "automatch"
    /\ req.matches > 0

----------------------------------------------------------------------------
(* Properties of the threshold argument (SpecCluster) *)

\* C22: cluster_embeddings and find_best_match called with a threshold
\* outside [0, 2] abort with an error: no such call ends by returning clusters
\* or an identity.
C22_InvalidThresholdAborts ==
    /\ cl.pc = "done" => (0 <= cl.threshold /\ cl.threshold <= 2 * Scale)
    /\ fm.pc = "done" => (0 <= fm.threshold /\ fm.threshold <= 2 * Scale)

----------------------------------------------------------------------------
(* Properties of the summary (SpecScan) *)

\* The files whose processing was started: the passes of the loop that got
\* beyond the cancel check.
StartedFiles == IF scan.cancelled THEN scan.polls - 1 ELSE scan.polls

\* C26: on return from scan, added + skipped is the number of files whose
\* processing was started; the sum equals total if and only if the run was not
\* cancelled; and the auto-assigned count is at most the faces-found count.
C26_SummaryCounts ==
    scan.pc = "done" =>
        /\ scan.summary.added + scan.summary.skipped = StartedFiles
        /\ (scan.summary.added + scan.summary.skipped = scan.summary.total)
               <=> ~scan.cancelled
        /\ scan.summary.matched <= scan.summary.faces

\* A run that skipped its first file, auto-assigned a face of its second
\* file and was not cancelled.
C26_Witness ==
    /\ scan.pc = "done"
    /\ ~scan.cancelled
    /\ scan.log[1].outcome = "skipped"
    /\ scan.summary.added = 1
    /\ scan.summary.matched = 1
    /\ scan.summary.faces = 2

----------------------------------------------------------------------------
(* Properties of repeated detection (SpecScan) *)

\* The step ends a file for which _index_faces returned: detection completed.
DetectionCompleted ==
    /\ scan.pc \in {"detect", "match"}
    /\ scan'.pc = "poll"
    /\ scan'.log[Len(scan'.log)].outcome = "added"

\* C27: when detection is run on a photo and completes, the face records
\* stored for that photo are exactly the faces that detection run inserted:
\* the earlier face records of the photo are gone, and no link points to a
\* face that is not stored.
C27_FacesReplaced ==
    [][ DetectionCompleted =>
            LET img_path == scan.all_images[scan.idx]
                photo_id == photos'[img_path].photo_id
                reported == scan'.faces_found - scan.faces_found
                last     == next_id'["faces"] - 1
            IN  /\ {f \in DOMAIN faces' : faces'[f].photo_id = photo_id}
                      = (last - reported + 1)..last
                /\ \A m \in mappings' : m[2] \in DOMAIN faces' ]_vars

\* What the next scan with force_rescan false decides for a file:
\* _index_photo returns None for an unchanged file, and detection is then run
\* only when no face is stored for its photo.
NextScanDetects(img_path) ==
    LET existing  == get_photo_by_path(img_path)
        unchanged == existing.photo_id # None /\ existing.phash = disk[img_path]
        photo_id  == IF unchanged THEN None ELSE UpsertReturn(existing, 0)
    IN  should_scan_faces(photo_id, get_faces_for_photo(existing.photo_id))

\* C28: when the processing of a file raised in a scan after its photo record
\* had been stored with the new hash, the next scan with force_rescan false
\* over the unchanged file runs detection on it again.
C28_SelfHealing ==
    scan.pc = "done" =>
        \A i \in 1..Len(scan.log) :
            LET img_path == scan.all_images[i]
            IN  (/\ scan.log[i].outcome = "raised"
                 /\ scan.log[i].pre \in {"new", "changed"}
                 /\ photos[img_path].phash = disk[img_path])
                    => NextScanDetects(img_path)

----------------------------------------------------------------------------
(* Properties of the vote of find_best_match (SpecMatch) *)

\* The samples of an identity within 2 x threshold of the query.
WithinDouble(pid) == {i \in SamplesOf(pid) : QueryDists[i] <= 2 * fm.threshold}

----------------------------------------------------------------------------
(* Properties of the deletions (under SpecDb) *)

\* The step is one call of delete_photos_for_folder.
FolderDeleted == req.pc = "idle" /\ req'.op = "delete_folder" /\ req'.n = req.n + 1

\* C24: delete_photos_for_folder deletes the photos whose path lies under the
\* folder and the faces of those photos, leaves person_face_mappings and
\* persons as they were, and returns the number of photos it deleted.
C24_FolderDeleteKeepsLinks ==
    [][FolderDeleted =>
          LET under == {p \in Paths : PathLike(p, req'.path_to_delete)}
              photo_ids == {photos[p].photo_id :
                               p \in {q \in under : photos[q].photo_id # None}}
          IN  /\ \A p \in Paths :
                    photos'[p] = IF p \in under THEN [photo_id |-> None, phash |-> 0]
                                 ELSE photos[p]
              /\ faces' = RemainingFaces({f \in FaceIds :
                                             faces[f].photo_id \in photo_ids})
              /\ mappings' = mappings
              /\ persons' = persons
              /\ req'.photos_deleted = Cardinality(photo_ids)]_vars

\* C29: the profile face of every person is null or a row of table faces, at
\* every moment: after rescans that replace the faces of a photo, after the
\* removal of a false positive and after delete_photos_for_folder.
C29_ProfileFaceExists ==
    \A p \in PersonIds :
        persons[p].profile_face_id = None \/ persons[p].profile_face_id \in FaceIds

\* The step is one call of unmap_face from the unassign handlers.
FaceUnassigned == req.pc = "idle" /\ req'.op = "unmap_face" /\ req'.n = req.n + 1

\* The step is one call of delete_person.
PersonDeleted == req.pc = "idle" /\ req'.op = "delete_person" /\ req'.n = req.n + 1

\* The faces of the links the step removed and of the identities it removed.
FacesReleased ==
    {m[2] : m \in (mappings \ mappings') \cup
                  {x \in mappings : x[1] \notin DOMAIN persons'}}

\* C21: unassigning a face and deleting an identity remove assignment links
\* only: the face records are the same after the step, and every face that
\* was linked through a removed link or to the removed identity is unassigned
\* after it.
C21_OnlyLinksRemoved ==
    [][(FaceUnassigned \/ PersonDeleted) =>
          /\ faces' = faces
          /\ \A f \in FacesReleased \cap FaceIds : f \in get_unassigned_faces']_vars

----------------------------------------------------------------------------
(* Properties of the web scans (under SpecWeb and SpecWebLive) *)

\* The threads that are inside scanner.scan.
Scanning == {t \in WebThreads : web.pc[t] = "scan"}

\* C23: scans are serialised: at most one scan runs at any time, and a scan
\* request that arrives during a scan starts no second concurrent scan.
C23_OneScanAtATime == Cardinality(Scanning) <= 1

\* C30: _scan_progress["running"] is true whenever a scan thread is inside
\* scanner.scan, and every started scan thread eventually runs the end of
\* run_scan, which sets running to false and publishes the summary.
C30_RunningFlag ==
    /\ [](Scanning # {} => web.running)
    /\ \A t \in WebThreads : (web.pc[t] = "start") ~> (web.pc[t] = "done")

====
